---------------------------- MODULE Spec2Model ----------------------------
(***************************************************************************)
(* A model of the Tetris component of src/components/tetris-game.tsx.      *)
(*                                                                         *)
(* The component keeps its game state in React state hooks (board,         *)
(* currentTetromino, currentPos, score, gameOver, gameStarted) and mirrors *)
(* each of them into a ref from an effect that runs after a commit.  The   *)
(* handlers (gameLoop, handleKeyDown, startGame) read the refs and enqueue *)
(* state updates; the updates take effect when React commits them.         *)
(*                                                                         *)
(* Grids keep the source's 0-based indices: a grid is a function from      *)
(* 0..n-1 (rows) to functions from 0..n-1 (columns).  A board cell is 0    *)
(* (empty) or the colour of the block in it; colours are numbered 1..7 in  *)
(* catalog order (cyan, blue, orange, yellow, green, purple, red).         *)
(*                                                                         *)
(* A piece is an object holding a reference to its shape array.  The field *)
(* array names the array the shape is stored in: a key of the catalog for  *)
(* the catalog's own array, "copy" for an array made by map.               *)
(***************************************************************************)
EXTENDS Integers, Sequences, FiniteSets, TLC

BOARD_WIDTH == 10

BOARD_HEIGHT == 20

dropInterval == 1000

(* 0-based grid from a tuple of tuples. *)
Grid(s) == [r \in 0..(Len(s) - 1) |-> [c \in 0..(Len(s[r + 1]) - 1) |-> s[r + 1][c + 1]]]

(* matrix.length / row.length *)
Length(m) == Cardinality(DOMAIN m)

Keys == <<"I", "J", "L", "O", "S", "T", "Z">>

TETROMINOES ==
  [I |-> [shape |-> Grid(<< <<0,0,0,0>>, <<1,1,1,1>>, <<0,0,0,0>>, <<0,0,0,0>> >>), color |-> 1, array |-> "I"],
   J |-> [shape |-> Grid(<< <<1,0,0>>, <<1,1,1>>, <<0,0,0>> >>), color |-> 2, array |-> "J"],
   L |-> [shape |-> Grid(<< <<0,0,1>>, <<1,1,1>>, <<0,0,0>> >>), color |-> 3, array |-> "L"],
   O |-> [shape |-> Grid(<< <<1,1>>, <<1,1>> >>), color |-> 4, array |-> "O"],
   S |-> [shape |-> Grid(<< <<0,1,1>>, <<1,1,0>>, <<0,0,0>> >>), color |-> 5, array |-> "S"],
   T |-> [shape |-> Grid(<< <<0,1,0>>, <<1,1,1>>, <<0,0,0>> >>), color |-> 6, array |-> "T"],
   Z |-> [shape |-> Grid(<< <<1,1,0>>, <<0,1,1>>, <<0,0,0>> >>), color |-> 7, array |-> "Z"]]

(* The values Math.floor(Math.random() * keys.length) can select. *)
getRandomTetromino == {Keys[i] : i \in 1..Len(Keys)}

EmptyRow == [c \in 0..(BOARD_WIDTH - 1) |-> 0]

createBoard == [r \in 0..(BOARD_HEIGHT - 1) |-> EmptyRow]

(* currentTetromino === null *)
NULL == [shape |-> << >>, color |-> 0, array |-> "none"]

---------------------------------------------------------------------------
(* rotate: an in-place transpose by swaps, then a reversal. *)

SwapOneWay(m, x, y) == [m EXCEPT ![x][y] = m[y][x]]

(* [matrix[x][y], matrix[y][x]] = [matrix[y][x], matrix[x][y]] *)
Swap(m, x, y) == [m EXCEPT ![x][y] = m[y][x], ![y][x] = m[x][y]]

RECURSIVE TransposeLoop(_, _, _)
TransposeLoop(m, y, x) ==
  IF y >= Length(m) THEN m
  ELSE IF x >= y THEN TransposeLoop(m, y + 1, 0)
  ELSE TransposeLoop(Swap(m, x, y), y, x + 1)

ReverseRow(row) == [c \in DOMAIN row |-> row[Length(row) - 1 - c]]

ReverseRows(m) == [r \in DOMAIN m |-> ReverseRow(m[r])]

ReverseColumns(m) == [r \in DOMAIN m |-> m[Length(m) - 1 - r]]

rotate(matrix, dir) ==
  LET t == TransposeLoop(matrix, 0, 0)
  IN IF dir > 0 THEN ReverseRows(t) ELSE ReverseColumns(t)

(* rotate works in place: its swaps and reversals are written into the     *)
(* array it is given, so after the call that array holds the result.  cat   *)
(* is the catalog, t a piece whose shape array is the argument.             *)
RotateInPlace(cat, t, dir) ==
  IF t.array \in DOMAIN cat
    THEN [cat EXCEPT ![t.array].shape = rotate(t.shape, dir)]
    ELSE cat

SameArray(t) == t

(* shape.map((row) => [...row]): a new array holding the same cells. *)
CopyOf(t) == [t EXCEPT !.array = "copy"]

---------------------------------------------------------------------------
(* checkCollision: the scan over the occupied cells, in the source's order, *)
(* returning at the first cell that is out of the board or on a block.      *)

CellCollidesAboveRowZero(board, boardX, boardY) ==
  \/ boardX < 0 \/ boardX >= BOARD_WIDTH
  \/ boardY >= BOARD_HEIGHT
  \/ (boardY > 0 /\ boardY \in DOMAIN board /\ board[boardY][boardX] # 0)

CellCollides(board, boardX, boardY) ==
  \/ boardX < 0 \/ boardX >= BOARD_WIDTH
  \/ boardY >= BOARD_HEIGHT
  \/ (boardY >= 0 /\ boardY \in DOMAIN board /\ board[boardY][boardX] # 0)

RECURSIVE CollisionLoop(_, _, _, _, _, _)
CollisionLoop(tetromino, board, x, y, row, col) ==
  IF row >= Length(tetromino) THEN FALSE
  ELSE IF col >= Length(tetromino[row]) THEN CollisionLoop(tetromino, board, x, y, row + 1, 0)
  ELSE IF tetromino[row][col] # 0 /\ CellCollides(board, x + col, y + row) THEN TRUE
  ELSE CollisionLoop(tetromino, board, x, y, row, col + 1)

checkCollision(tetromino, board, p) == CollisionLoop(tetromino, board, p.x, p.y, 0, 0)

---------------------------------------------------------------------------
(* updateBoard's updater: write the piece, then the line-clear pass. *)

(* block !== 0 at row y, column x of the shape *)
Block(shape, y, x) == y \in DOMAIN shape /\ x \in DOMAIN shape[y] /\ shape[y][x] # 0

(* newBoard[newPos.y + y][newPos.x + x] = newTetromino.color *)
WritePiece(b, t, p) ==
  [r \in DOMAIN b |-> [c \in DOMAIN b[r] |->
     IF Block(t.shape, r - p.y, c - p.x) THEN t.color ELSE b[r][c]]]

RowFull(row) == \A c \in DOMAIN row : row[c] # 0

(* newBoard.splice(y, 1); newBoard.unshift(Array(BOARD_WIDTH).fill(0)) *)
SpliceUnshift(b, y) ==
  [r \in DOMAIN b |-> IF r = 0 THEN EmptyRow ELSE IF r <= y THEN b[r - 1] ELSE b[r]]

RECURSIVE ClearLoopNoRecheck(_, _, _)
ClearLoopNoRecheck(b, y, linesCleared) ==
  IF y < 0 THEN [board |-> b, linesCleared |-> linesCleared]
  ELSE IF RowFull(b[y]) THEN ClearLoopNoRecheck(SpliceUnshift(b, y), y - 1, linesCleared + 1)
  ELSE ClearLoopNoRecheck(b, y - 1, linesCleared)

(* for (let y = BOARD_HEIGHT - 1; y >= 0; y--), with y++ after a removal *)
RECURSIVE ClearLoop(_, _, _)
ClearLoop(b, y, linesCleared) ==
  IF y < 0 THEN [board |-> b, linesCleared |-> linesCleared]
  ELSE IF RowFull(b[y]) THEN ClearLoop(SpliceUnshift(b, y), y, linesCleared + 1)
  ELSE ClearLoop(b, y - 1, linesCleared)

ClearLines(b) == ClearLoop(b, BOARD_HEIGHT - 1, 0)

---------------------------------------------------------------------------
(* The component's state. *)

VARIABLES
  board, currentTetromino, currentPos, score, gameOver, gameStarted,
  gameStartedRef, gameOverRef, currentTetrominoRef, currentPosRef, boardRef,
  dropTime, lastTimeSet, animationFrameId, rafQueue, pending, mounted,
  catalog, keys, frames, probe

state == <<board, currentTetromino, currentPos, score, gameOver, gameStarted>>

refs == <<gameStartedRef, gameOverRef, currentTetrominoRef, currentPosRef, boardRef>>

loopVars == <<dropTime, lastTimeSet, animationFrameId, rafQueue>>

vars == <<state, refs, loopVars, pending, mounted, catalog, keys, frames, probe>>

MaxKeys == 2

MaxFrames == 3

(* The elapsed times a frame may report since the previous frame. *)
DeltaTimes == {600, 1100}

KeyNames == {"ArrowLeft", "ArrowRight", "ArrowDown", "ArrowUp", " ", "Escape"}

(* The React state as one record, for folding a queue of updates over it. *)
Current ==
  [board |-> board, currentTetromino |-> currentTetromino, currentPos |-> currentPos,
   score |-> score, gameOver |-> gameOver, gameStarted |-> gameStarted]

(* One enqueued state update: op names the setter call, t, p and b its arguments. *)
Update(op, t, p, b) == [op |-> op, t |-> t, p |-> p, b |-> b]

NoPos == [x |-> 0, y |-> 0]

LockUpdaterFlatScore(s, t, p) ==
  LET r == ClearLines(WritePiece(s.board, t, p))
  IN [s EXCEPT !.board = r.board,
               !.score = IF r.linesCleared > 0 THEN s.score + 100 ELSE s.score]

(* The updater passed to setBoard by updateBoard, with its nested setScore. *)
(* React runs each queued updater once, in the order of the calls.          *)
LockUpdater(s, t, p) ==
  LET r == ClearLines(WritePiece(s.board, t, p))
  IN [s EXCEPT !.board = r.board,
               !.score = IF r.linesCleared > 0 THEN s.score + r.linesCleared * 100 ELSE s.score]

ApplyUpdate(s, u) ==
  CASE u.op = "setBoard:updateBoard" -> LockUpdater(s, u.t, u.p)
    [] u.op = "setBoard:createBoard" -> [s EXCEPT !.board = createBoard]
    [] u.op = "setScore:0" -> [s EXCEPT !.score = 0]
    [] u.op = "setGameOver" -> [s EXCEPT !.gameOver = u.b]
    [] u.op = "setGameStarted" -> [s EXCEPT !.gameStarted = u.b]
    [] u.op = "setCurrentTetromino" -> [s EXCEPT !.currentTetromino = u.t]
    [] u.op = "setCurrentTetromino:shape" ->
         [s EXCEPT !.currentTetromino =
            IF s.currentTetromino # NULL
              THEN [s.currentTetromino EXCEPT !.shape = u.t.shape, !.array = u.t.array]
              ELSE NULL]
    [] u.op = "setCurrentPos" -> [s EXCEPT !.currentPos = u.p]
    [] u.op = "setCurrentPos:y" -> [s EXCEPT !.currentPos = [s.currentPos EXCEPT !.y = u.p.y]]

RECURSIVE ApplyAll(_, _)
ApplyAll(s, q) == IF q = << >> THEN s ELSE ApplyAll(ApplyUpdate(s, Head(q)), Tail(q))

(* A commit: the queued updates applied in order, then the effects that copy *)
(* each state into its ref.                                                  *)
Render(q) ==
  \E s \in {ApplyAll(Current, q)} :
     /\ board' = s.board
     /\ currentTetromino' = s.currentTetromino
     /\ currentPos' = s.currentPos
     /\ score' = s.score
     /\ gameOver' = s.gameOver
     /\ gameStarted' = s.gameStarted
     /\ boardRef' = s.board
     /\ currentTetrominoRef' = s.currentTetromino
     /\ currentPosRef' = s.currentPos
     /\ gameOverRef' = s.gameOver
     /\ gameStartedRef' = s.gameStarted
     /\ pending' = << >>

(* requestAnimationFrame's handle: a positive number no pending frame has. *)
NextFrameId(q) == CHOOSE i \in 1..(Cardinality(q) + 1) : i \notin q /\ \A j \in 1..(i - 1) : j \in q

CancelNothing(q) == q

(* cancelAnimationFrame under `if (animationFrameId.current)` *)
Cancel(q) == IF animationFrameId # 0 THEN q \ {animationFrameId} ELSE q

StartPos(t) == [x |-> (BOARD_WIDTH \div 2) - (Length(t.shape[0]) \div 2), y |-> 0]

(* updateBoard(newTetromino, newPos): one setBoard call. *)
updateBoard(t, p) == << Update("setBoard:updateBoard", t, p, FALSE) >>

newTetrominoOfStillStarted(type) ==
  LET tetromino == catalog[type]
      start == StartPos(tetromino)
  IN IF checkCollision(tetromino.shape, boardRef, start)
       THEN [updates |-> << Update("setGameOver", NULL, NoPos, TRUE) >>,
             cancel |-> TRUE]
       ELSE [updates |-> << Update("setCurrentTetromino", tetromino, NoPos, FALSE),
                            Update("setCurrentPos", NULL, start, FALSE) >>,
             cancel |-> FALSE]

(* newTetromino with the piece kind the random source returned: the updates *)
(* it enqueues and whether it cancels the stored frame.                      *)
newTetrominoOf(type) ==
  LET tetromino == catalog[type]
      start == StartPos(tetromino)
  IN IF checkCollision(tetromino.shape, boardRef, start)
       THEN [updates |-> << Update("setGameOver", NULL, NoPos, TRUE),
                            Update("setGameStarted", NULL, NoPos, FALSE) >>,
             cancel |-> TRUE]
       ELSE [updates |-> << Update("setCurrentTetromino", tetromino, NoPos, FALSE),
                            Update("setCurrentPos", NULL, start, FALSE) >>,
             cancel |-> FALSE]

(* newTetromino: one outcome per kind getRandomTetromino can return. *)
newTetromino == {newTetrominoOf(type) : type \in getRandomTetromino}

---------------------------------------------------------------------------
(* gameLoop: one animation frame firing.  React commits the updates of a    *)
(* frame callback in a later task, so they are left in the queue here; the  *)
(* next frame does not fire before that commit.                             *)

(* What a handler did: the updates it enqueued and whether newTetromino *)
(* cancelled the stored frame.                                          *)
Did(updates, cancel) == [updates |-> updates, cancel |-> cancel]

(* updateBoard(piece, pos); newTetromino() *)
LockAndSpawn == {Did(updateBoard(currentTetrominoRef, currentPosRef) \o n.updates, n.cancel) :
                   n \in newTetromino}

(* The drop branch of gameLoop: its possible outcomes. *)
gameLoopDrop ==
  IF currentTetrominoRef = NULL THEN {Did(<< >>, FALSE)}
  ELSE LET newY == currentPosRef.y + 1
       IN IF ~checkCollision(currentTetrominoRef.shape, boardRef, [x |-> currentPosRef.x, y |-> newY])
            THEN {Did(<< Update("setCurrentPos:y", NULL, [x |-> 0, y |-> newY], FALSE) >>, FALSE)}
            ELSE LockAndSpawn

gameLoopWithoutRequest(id, deltaTime) ==
  /\ id \in rafQueue
  /\ pending = << >>
  /\ IF ~gameStartedRef \/ gameOverRef
       THEN /\ rafQueue' = rafQueue \ {id}
            /\ UNCHANGED <<state, refs, dropTime, lastTimeSet, animationFrameId, pending,
                           mounted, catalog, keys, frames, probe>>
       ELSE LET dt == dropTime + (IF lastTimeSet THEN deltaTime ELSE 0)
                fired == dt > dropInterval
            IN \E r \in IF fired THEN gameLoopDrop ELSE {Did(<< >>, FALSE)} :
               \E q \in {IF r.cancel THEN Cancel(rafQueue \ {id}) ELSE rafQueue \ {id}} :
               /\ frames < MaxFrames
               /\ lastTimeSet' = TRUE
               /\ dropTime' = IF fired THEN 0 ELSE dt
               /\ pending' = r.updates
               /\ frames' = frames + 1
               /\ rafQueue' = q
               /\ UNCHANGED <<state, refs, animationFrameId, mounted, catalog, keys, probe>>

gameLoop(id, deltaTime) ==
  /\ id \in rafQueue
  /\ pending = << >>
  /\ IF ~gameStartedRef \/ gameOverRef
       THEN /\ rafQueue' = rafQueue \ {id}
            /\ UNCHANGED <<state, refs, dropTime, lastTimeSet, animationFrameId, pending,
                           mounted, catalog, keys, frames, probe>>
       ELSE LET dt == dropTime + (IF lastTimeSet THEN deltaTime ELSE 0)
                fired == dt > dropInterval
            IN \E r \in IF fired THEN gameLoopDrop ELSE {Did(<< >>, FALSE)} :
               \E q \in {IF r.cancel THEN Cancel(rafQueue \ {id}) ELSE rafQueue \ {id}} :
               /\ frames < MaxFrames
               /\ lastTimeSet' = TRUE
               /\ dropTime' = IF fired THEN 0 ELSE dt
               /\ pending' = r.updates
               /\ frames' = frames + 1
               /\ animationFrameId' = NextFrameId(q)
               /\ rafQueue' = q \cup {NextFrameId(q)}
               /\ UNCHANGED <<state, refs, mounted, catalog, keys, probe>>

(* The commit of the updates a frame callback enqueued. *)
Commit ==
  /\ mounted
  /\ pending # << >>
  /\ Render(pending)
  /\ UNCHANGED <<loopVars, mounted, catalog, keys, frames, probe>>

---------------------------------------------------------------------------
(* startGame: the button's click handler; the button is disabled while a    *)
(* game is running.  React commits a click handler's updates before the     *)
(* next task.                                                               *)

startGame ==
  /\ mounted
  /\ ~(gameStarted /\ ~gameOver)
  /\ \E n \in newTetromino :
     \E q \in {Cancel(IF n.cancel THEN Cancel(rafQueue) ELSE rafQueue)} :
        /\ Render(pending \o << Update("setBoard:createBoard", NULL, NoPos, FALSE),
                                Update("setScore:0", NULL, NoPos, FALSE),
                                Update("setGameOver", NULL, NoPos, FALSE),
                                Update("setGameStarted", NULL, NoPos, TRUE) >> \o n.updates)
        /\ lastTimeSet' = FALSE
        /\ dropTime' = 0
        /\ animationFrameId' = NextFrameId(q)
        /\ rafQueue' = q \cup {NextFrameId(q)}
        /\ UNCHANGED <<mounted, catalog, keys, frames, probe>>

---------------------------------------------------------------------------
(* handleKeyDown: the window's keydown listener.  React commits the updates *)
(* of a keydown handler before the next task.                               *)

(* The hard-drop loop of lines 335-344. *)
RECURSIVE DropLoop(_)
DropLoop(dropY) ==
  IF ~checkCollision(currentTetrominoRef.shape, boardRef, [x |-> currentPosRef.x, y |-> dropY + 1])
    THEN DropLoop(dropY + 1) ELSE dropY

(* Line 317: the handler returns at once unless a game is running with a piece. *)
KeyIgnoredWithoutPiece == currentTetrominoRef = NULL

KeyIgnored == ~gameStartedRef \/ gameOverRef \/ currentTetrominoRef = NULL

TargetWithKick(key) ==
  [x |-> CASE key = "ArrowLeft" -> currentPosRef.x - 1
           [] key \in {"ArrowRight", "ArrowUp"} -> currentPosRef.x + 1
           [] OTHER -> currentPosRef.x,
   y |-> IF key = "ArrowDown" THEN currentPosRef.y + 1 ELSE currentPosRef.y,
   piece |-> IF key = "ArrowUp"
               THEN [CopyOf(currentTetrominoRef) EXCEPT !.shape = rotate(@, 1)]
               ELSE currentTetrominoRef]

(* Lines 319-333: the offset and the shape a key other than Space asks for. *)
Target(key) ==
  [x |-> CASE key = "ArrowLeft" -> currentPosRef.x - 1
           [] key = "ArrowRight" -> currentPosRef.x + 1
           [] OTHER -> currentPosRef.x,
   y |-> IF key = "ArrowDown" THEN currentPosRef.y + 1 ELSE currentPosRef.y,
   piece |-> IF key = "ArrowUp"
               THEN [CopyOf(currentTetrominoRef) EXCEPT !.shape = rotate(@, 1)]
               ELSE currentTetrominoRef]

BlockedIgnored(key) == {Did(<< >>, FALSE)}

(* Lines 353-356: what a key does whose target collides. *)
Blocked(key) == IF key = "ArrowDown" THEN LockAndSpawn ELSE {Did(<< >>, FALSE)}

(* The body of handleKeyDown: its possible outcomes. *)
handleKeyDownBody(key) ==
  IF KeyIgnored
    THEN {Did(<< >>, FALSE)}
  ELSE IF key = " "
    THEN {Did(<< Update("setCurrentPos:y", NULL, [x |-> 0, y |-> DropLoop(currentPosRef.y)], FALSE) >>,
              FALSE)}
  ELSE LET target == Target(key)
       IN IF ~checkCollision(target.piece.shape, boardRef, [x |-> target.x, y |-> target.y])
            THEN {Did(<< Update("setCurrentPos", NULL, [x |-> target.x, y |-> target.y], FALSE),
                         Update("setCurrentTetromino:shape", target.piece, NoPos, FALSE) >>,
                      FALSE)}
            ELSE Blocked(key)

handleKeyDown(key) ==
  /\ mounted
  /\ \E r \in handleKeyDownBody(key) :
        /\ keys' = keys + 1
        /\ catalog' = IF key = "ArrowUp" /\ ~KeyIgnored
                         THEN RotateInPlace(catalog, CopyOf(currentTetrominoRef), 1)
                         ELSE catalog
        /\ rafQueue' = IF r.cancel THEN Cancel(rafQueue) ELSE rafQueue
        /\ IF r.updates = << >>
             THEN UNCHANGED <<state, refs, pending>>
             ELSE Render(pending \o r.updates)
        /\ UNCHANGED <<dropTime, lastTimeSet, animationFrameId, mounted, frames>>

(* The cleanup of the keydown effect, run when the component unmounts. *)
Unmount ==
  /\ mounted
  /\ mounted' = FALSE
  /\ rafQueue' = Cancel(rafQueue)
  /\ pending' = << >>
  /\ UNCHANGED <<state, refs, dropTime, lastTimeSet, animationFrameId, catalog, keys, frames, probe>>

---------------------------------------------------------------------------
(* The states a session starts from: the component as constructed, and      *)
(* running games a player reaches from it.                                  *)

(* Nine O pieces fallen at the spawn column: rows 2..19 of columns 4 and 5. *)
StackBoard ==
  [r \in 0..(BOARD_HEIGHT - 1) |-> [c \in 0..(BOARD_WIDTH - 1) |->
     IF r >= 2 /\ c \in {4, 5} THEN TETROMINOES.O.color ELSE 0]]

(* Horizontal I pieces moved to columns 0..3 and 6..9 in the lowest n rows. *)
GapBoard(n) ==
  [r \in 0..(BOARD_HEIGHT - 1) |-> [c \in 0..(BOARD_WIDTH - 1) |->
     IF r >= BOARD_HEIGHT - n /\ c \notin {4, 5} THEN TETROMINOES.I.color ELSE 0]]

Constructed ==
  /\ board = createBoard
  /\ currentTetromino = NULL
  /\ currentPos = [x |-> 0, y |-> 0]
  /\ score = 0
  /\ gameOver = FALSE
  /\ gameStarted = FALSE
  /\ dropTime = 0
  /\ lastTimeSet = FALSE
  /\ animationFrameId = 0
  /\ rafQueue = {}
  /\ catalog = TETROMINOES

(* A running game on board b whose piece has just spawned. *)
Running(b, type) ==
  /\ board = b
  /\ currentTetromino = TETROMINOES[type]
  /\ currentPos = StartPos(TETROMINOES[type])
  /\ score = 0
  /\ gameOver = FALSE
  /\ gameStarted = TRUE
  /\ dropTime = 0
  /\ lastTimeSet = TRUE
  /\ animationFrameId = 1
  /\ rafQueue = {1}
  /\ catalog = TETROMINOES

Synced ==
  /\ boardRef = board
  /\ currentTetrominoRef = currentTetromino
  /\ currentPosRef = currentPos
  /\ gameOverRef = gameOver
  /\ gameStartedRef = gameStarted
  /\ pending = << >>
  /\ mounted = TRUE
  /\ keys = 0
  /\ frames = 0

Init ==
  /\ \/ Constructed
     \/ \E type \in getRandomTetromino : Running(StackBoard, type)
     \/ \E type \in {"O", "I"}, n \in 1..2 : Running(GapBoard(n), type)
  /\ Synced
  /\ probe = << >>

(* The browser runs a pending frame callback. *)
Frame == \E id \in rafQueue, deltaTime \in DeltaTimes : gameLoop(id, deltaTime)

(* The player presses a key. *)
KeyDown == keys < MaxKeys /\ UNCHANGED probe /\ \E key \in KeyNames : handleKeyDown(key)

Next ==
  \/ Frame
  \/ Commit
  \/ startGame
  \/ KeyDown
  \/ Unmount

Spec == Init /\ [][Next]_vars

(* The browser runs every frame callback it was asked for, and React commits *)
(* the updates a callback enqueued; the player is free to press nothing.     *)
FairSpec == Spec /\ WF_vars(Frame) /\ WF_vars(Commit)

---------------------------------------------------------------------------
(* The pure functions on their own: each specification below draws the      *)
(* arguments of one function and applies it.                                *)

game == <<state, refs, loopVars, pending, mounted, catalog, keys, frames>>

(* The largest square grid drawn cell by cell. *)
MaxSize == 3

SquareGrids == UNION {[0..(n - 1) -> [0..(n - 1) -> {0, 1}]] : n \in 1..MaxSize}

CatalogShapes == {TETROMINOES[k].shape : k \in getRandomTetromino}

(* rotate, applied four times in one direction to a copy of the grid. *)
InitRotate ==
  /\ Constructed /\ Synced
  /\ \E m \in SquareGrids \cup CatalogShapes, dir \in {1, -1} :
       probe = [original |-> m, matrix |-> m, dir |-> dir, n |-> 0]

RotateStep ==
  /\ probe.n < 4
  /\ probe' = [probe EXCEPT !.matrix = rotate(probe.matrix, probe.dir), !.n = probe.n + 1]
  /\ UNCHANGED game

SpecRotate == InitRotate /\ [][RotateStep]_vars

(* checkCollision, applied to a shape, a board and an offset. *)
RECURSIVE Rotations(_, _)
Rotations(m, n) == IF n = 0 THEN {m} ELSE {m} \cup Rotations(rotate(m, 1), n - 1)

Shapes == UNION {Rotations(m, 3) : m \in CatalogShapes}

FullBoard == [r \in 0..(BOARD_HEIGHT - 1) |-> [c \in 0..(BOARD_WIDTH - 1) |-> 1]]

Boards == {createBoard, StackBoard, GapBoard(2), FullBoard}

(* Offsets from outside the board on every side to inside it. *)
Offsets == [x : -3..BOARD_WIDTH, y : -3..BOARD_HEIGHT]

InitCollision ==
  /\ Constructed /\ Synced
  /\ \E t \in Shapes, b \in Boards, p \in Offsets :
       probe = [tetromino |-> t, board |-> b, pos |-> p, called |-> FALSE, result |-> FALSE]

CollisionStep ==
  /\ ~probe.called
  /\ probe' = [probe EXCEPT !.called = TRUE,
                            !.result = checkCollision(probe.tetromino, probe.board, probe.pos)]
  /\ UNCHANGED game

SpecCollision == InitCollision /\ [][CollisionStep]_vars

(* The line-clear pass, applied to boards built from full, partial and empty *)
(* rows at the top and at the bottom of the board.                          *)
RowKinds ==
  {EmptyRow, [c \in 0..(BOARD_WIDTH - 1) |-> 1],
   [c \in 0..(BOARD_WIDTH - 1) |-> IF c = 0 THEN 0 ELSE 2],
   [c \in 0..(BOARD_WIDTH - 1) |-> IF c = BOARD_WIDTH - 1 THEN 3 ELSE 0]}

(* How many rows at each end of the board are drawn; the rest are empty. *)
MaxRows == 3

DrawnRows == (0..(MaxRows - 1)) \cup ((BOARD_HEIGHT - MaxRows)..(BOARD_HEIGHT - 1))

InitClear ==
  /\ Constructed /\ Synced
  /\ \E f \in [DrawnRows -> RowKinds] :
       probe = [before |-> [r \in 0..(BOARD_HEIGHT - 1) |-> IF r \in DrawnRows THEN f[r] ELSE EmptyRow],
                after |-> createBoard, linesCleared |-> 0, called |-> FALSE]

ClearStep ==
  /\ ~probe.called
  /\ \E r \in {ClearLines(probe.before)} :
       probe' = [probe EXCEPT !.called = TRUE, !.after = r.board, !.linesCleared = r.linesCleared]
  /\ UNCHANGED game

SpecClear == InitClear /\ [][ClearStep]_vars

(* The keyboard commands on their own: runs of key presses on a piece that   *)
(* has just spawned, with no frame in between.  probe holds the run of       *)
(* accepted rotations: how many there were in a row, and the shape and       *)
(* offset the piece had before the first of them.                            *)
MaxCommands == 5

InitCommands ==
  /\ \E type \in getRandomTetromino, b \in {createBoard, StackBoard, GapBoard(2)} : Running(b, type)
  /\ Synced
  /\ probe = [n |-> 0, shape |-> currentTetromino.shape, pos |-> currentPos]

(* The rotate command's test of lines 330-349 passes. *)
RotationAccepted ==
  /\ ~KeyIgnored
  /\ ~checkCollision(rotate(currentTetrominoRef.shape, 1), boardRef, currentPosRef)

Command ==
  /\ keys < MaxCommands
  /\ \E key \in KeyNames :
       /\ handleKeyDown(key)
       /\ probe' = IF key # "ArrowUp"
                     THEN [n |-> 0, shape |-> currentTetromino'.shape, pos |-> currentPos']
                   ELSE IF RotationAccepted THEN [probe EXCEPT !.n = @ + 1]
                   ELSE probe

SpecCommands == InitCommands /\ [][Command]_vars

---------------------------------------------------------------------------
(* Properties of the game. *)

(* The handlers take the game for running with an active piece. *)
RunningRefs == gameStartedRef /\ ~gameOverRef /\ currentTetrominoRef # NULL

(* No update is waiting for a commit: the refs hold the committed state. *)
Quiescent == pending = << >>

(* The lowest offset below p, in p's column, the shape reaches without colliding. *)
RestingPos(shape, b, p) ==
  [x |-> p.x,
   y |-> CHOOSE k \in p.y..BOARD_HEIGHT :
           /\ \A j \in (p.y + 1)..k : ~checkCollision(shape, b, [x |-> p.x, y |-> j])
           /\ checkCollision(shape, b, [x |-> p.x, y |-> k + 1])]

(* C1: a hard drop handled in a running game locks the piece at its lowest  *)
(* non-colliding offset, clears and scores the full rows and spawns the     *)
(* next piece, all in the step that handles the key.                        *)
C1_HardDropLocksAtOnce ==
  [][(handleKeyDown(" ") /\ RunningRefs /\ Quiescent) =>
       LET r == ClearLines(WritePiece(board, currentTetromino,
                                      RestingPos(currentTetromino.shape, board, currentPos)))
       IN /\ board' = r.board
          /\ score' = score + 100 * r.linesCleared
          /\ gameOver' \/ currentPos' = StartPos(currentTetromino')]_vars

(* C2: a start command ends with an empty board, score 0, a running session *)
(* and an active piece at the spawn offset, also after a game that ended.   *)
C2_StartAlwaysRuns ==
  [][startGame =>
       /\ board' = createBoard
       /\ score' = 0
       /\ gameStarted' /\ ~gameOver'
       /\ currentTetromino' # NULL
       /\ currentPos' = StartPos(currentTetromino')]_vars

(* The commit of a frame whose drop locked the piece and attempted a spawn. *)
LockCommitted == Commit /\ pending[1].op = "setBoard:updateBoard"

(* C3: the spawn after a lock is tested against the board with the locked   *)
(* piece in it: when the step has taken effect, either the game is over or  *)
(* the spawned piece lies on empty cells of that board.                     *)
C3_SpawnTestedAfterLock ==
  [][LockCommitted =>
       \/ gameOver' /\ ~gameStarted'
       \/ ~checkCollision(currentTetromino'.shape, board', currentPos')]_vars

(* C4: while the game is running with an active piece, the piece at its     *)
(* offset is inside the board and on empty cells.                           *)
C4_ActivePieceNeverCollides ==
  (gameStarted /\ ~gameOver /\ currentTetromino # NULL) =>
    \A r \in DOMAIN currentTetromino.shape : \A c \in DOMAIN currentTetromino.shape :
       currentTetromino.shape[r][c] # 0 =>
         /\ currentPos.x + c \in 0..9
         /\ currentPos.y + r \in 0..19
         /\ board[currentPos.y + r][currentPos.x + c] = 0

(* The updateBoard calls among the updates q. *)
Locks(q) == SelectSeq(q, LAMBDA u : u.op = "setBoard:updateBoard")

(* The rows that are full once each piece of q is written, counted lock by lock. *)
RECURSIVE FullRowsWritten(_, _)
FullRowsWritten(b, q) ==
  IF q = << >> THEN 0
  ELSE LET written == WritePiece(b, Head(q).t, Head(q).p)
       IN Cardinality({r \in 0..19 : \A c \in 0..9 : written[r][c] # 0})
            + FullRowsWritten(ClearLines(written).board, Tail(q))

(* The updates a key handler's commit applies: none when it enqueued none. *)
Committed(r) == IF r.updates = << >> THEN << >> ELSE pending \o r.updates

(* C5: a step that locks a piece adds 100 per row that is full once the     *)
(* piece is written; a start sets the score to 0; no other step changes it, *)
(* so the score is never negative and only a start can lower it.            *)
C5_ScoreIsHundredPerFullRow ==
  [][/\ score' >= 0
     /\ startGame => score' = 0
     /\ score' < score => startGame
     /\ score' # score => (startGame \/ Commit \/ KeyDown)
     /\ Commit => score' = score + 100 * FullRowsWritten(board, Locks(pending))
     /\ keys' # keys =>
          \A key \in KeyNames : handleKeyDown(key) =>
             \A r \in handleKeyDownBody(key) :
                score' = score + 100 * FullRowsWritten(board, Locks(Committed(r)))]_vars

(* Two rows completed by one lock have been cleared and scored. *)
C5_Witness == score = 200 /\ board = createBoard /\ gameStarted

(* C7: a hard drop leaves the piece in its column, with its grid, at an     *)
(* offset it reached without colliding and cannot go below.                 *)
C7_HardDropRestsAboveCollision ==
  [][(handleKeyDown(" ") /\ RunningRefs) =>
       /\ currentTetromino' = currentTetromino
       /\ currentPos'.x = currentPos.x
       /\ currentPos'.y >= currentPos.y
       /\ \A k \in currentPos.y..currentPos'.y :
            ~checkCollision(currentTetromino'.shape, board', [x |-> currentPos.x, y |-> k])
       /\ checkCollision(currentTetromino'.shape, board',
                         [x |-> currentPos.x, y |-> currentPos'.y + 1])]_vars

(* C10: once the game is over or the component is unmounted, no animation   *)
(* frame is scheduled.                                                      *)
C10_NoFrameOnceOver == (gameOver \/ ~mounted) => rafQueue = {}

(* C11: every handler reads the state as the step before it left it, so a  *)
(* piece is locked at most once: the updates a key's commit applies never   *)
(* hold a second updateBoard call next to the one a tick has enqueued for   *)
(* the same piece.                                                          *)
C11_EachPieceLockedOnce ==
  [][keys' # keys =>
       \A key \in KeyNames : handleKeyDown(key) =>
          \A r \in handleKeyDownBody(key) : Len(Locks(Committed(r))) <= 1]_vars

(* C12: when the game is over there is no active piece. *)
C12_NoActivePieceWhenOver == gameOver => currentTetromino = NULL

(* C13: the catalog holds its initial grids in every reachable state. *)
C13_CatalogNeverChanges ==
  \A k \in getRandomTetromino :
     /\ catalog[k].shape = TETROMINOES[k].shape
     /\ catalog[k].array = k

(* A T spawned from the catalog and rotated once, the catalog's T as defined. *)
C13_Witness ==
  /\ gameStarted
  /\ keys > 0
  /\ currentTetromino.color = TETROMINOES.T.color
  /\ currentTetromino.shape = rotate(TETROMINOES.T.shape, 1)
  /\ currentTetromino.shape # catalog.T.shape

(* C14: a rotate command on a running game replaces the piece's grid by its *)
(* clockwise rotation exactly when the rotated grid is inside the board and *)
(* on empty cells at the piece's offset, and never changes the offset; four *)
(* accepted rotate commands in a row give back the grid and the offset.     *)
C14_RotateIffNoCollision ==
  [][(handleKeyDown("ArrowUp") /\ RunningRefs) =>
       LET rotated == rotate(currentTetromino.shape, 1)
           fits == \A r \in DOMAIN rotated : \A c \in DOMAIN rotated[r] :
                     rotated[r][c] # 0 =>
                       /\ currentPos.x + c \in 0..9
                       /\ currentPos.y + r <= 19
                       /\ currentPos.y + r >= 0 => board[currentPos.y + r][currentPos.x + c] = 0
       IN /\ currentPos' = currentPos
          /\ currentTetromino'.color = currentTetromino.color
          /\ currentTetromino'.shape = IF fits THEN rotated ELSE currentTetromino.shape
          /\ board' = board
          /\ probe'.n = 4 =>
               /\ currentTetromino'.shape = probe'.shape
               /\ currentPos' = probe'.pos]_vars

(* A T on the empty board after four accepted rotations. *)
C14_Witness ==
  /\ probe.n = 4
  /\ board = createBoard
  /\ currentTetromino.color = TETROMINOES.T.color
  /\ currentTetromino.shape = TETROMINOES.T.shape
  /\ currentTetromino.array = "copy"
  /\ currentPos = StartPos(TETROMINOES.T)

(* The state the game is in once the updates still waiting are committed. *)
Settled == ApplyAll(Current, pending)

(* C15: in a running game a left or right move whose target collides, a     *)
(* rotation whose grid collides and an unrecognized key change nothing of   *)
(* the board, the piece, its offset, the score and the flags, also while a  *)
(* tick's updates wait for their commit; an accepted left or right move     *)
(* changes the offset's x by one and nothing else.                          *)
C15_RejectedCommandsChangeNothing ==
  [][(keys' # keys /\ RunningRefs) =>
       LET shape == currentTetrominoRef.shape
           left == [currentPosRef EXCEPT !.x = @ - 1]
           right == [currentPosRef EXCEPT !.x = @ + 1]
           Moved(p) == IF checkCollision(shape, boardRef, p)
                         THEN Settled' = Settled
                         ELSE Settled' = [Settled EXCEPT !.currentPos.x = p.x]
       IN /\ handleKeyDown("Escape") => Settled' = Settled
          /\ handleKeyDown("ArrowLeft") => Moved(left)
          /\ handleKeyDown("ArrowRight") => Moved(right)
          /\ (handleKeyDown("ArrowUp") /\ checkCollision(rotate(shape, 1), boardRef, currentPosRef))
               => Settled' = Settled]_vars

(* C16: with no update waiting, a soft drop whose lower offset collides     *)
(* ends in a state a tick's drop ends in from the same state: the piece's   *)
(* colour is in every cell it occupied, the full rows are cleared and       *)
(* scored, and a spawn is attempted; a soft drop whose lower offset is free *)
(* only adds 1 to the offset's y.                                           *)
C16_SoftDropLocksLikeTick ==
  [][(handleKeyDown("ArrowDown") /\ RunningRefs /\ Quiescent) =>
       LET below == [currentPos EXCEPT !.y = @ + 1]
           locked == ClearLines(WritePiece(board, currentTetromino, currentPos))
       IN IF checkCollision(currentTetromino.shape, board, below)
            THEN /\ \E r \in gameLoopDrop : Current' = ApplyAll(Current, r.updates)
                 /\ board' = locked.board
                 /\ score' = score + 100 * locked.linesCleared
                 /\ \/ /\ gameOver' /\ ~gameStarted'
                       /\ currentPos' = currentPos
                    \/ /\ ~gameOver' /\ gameStarted'
                       /\ \E type \in getRandomTetromino :
                            /\ currentTetromino' = TETROMINOES[type]
                            /\ currentPos' = StartPos(TETROMINOES[type])
            ELSE /\ currentPos' = below
                 /\ currentTetromino' = currentTetromino
                 /\ UNCHANGED <<board, score, gameOver, gameStarted>>]_vars

(* A soft drop has locked an O into the gap of the lowest row, before any   *)
(* frame: the row is cleared and scored.                                    *)
C16_Witness ==
  /\ frames = 0
  /\ keys > 0
  /\ score = 100
  /\ gameStarted
  /\ board[BOARD_HEIGHT - 1][4] = TETROMINOES.O.color
  /\ currentPos.y = 0

(* C17: while the game is not started or over, a frame and a key change     *)
(* neither board, piece, offset nor score, and only a start changes the     *)
(* state at all.                                                            *)
C17_NothingMovesUnlessRunning ==
  [][(~gameStarted \/ gameOver) =>
       /\ (Frame \/ KeyDown) => UNCHANGED <<board, currentTetromino, currentPos, score>>
       /\ state' # state => startGame]_vars

(* Keys pressed on the component before its first start. *)
C17_Witness ==
  /\ ~gameStarted /\ ~gameOver
  /\ currentTetromino = NULL
  /\ keys = MaxKeys

(* The session state the two flags stand for. *)
Session == IF gameOver THEN "over" ELSE IF gameStarted THEN "running" ELSE "not-started"

(* Some piece collides at its spawn offset on board b. *)
SpawnCollides(b) ==
  \E type \in getRandomTetromino :
     checkCollision(TETROMINOES[type].shape, b, StartPos(TETROMINOES[type]))

(* C18: the session state changes only from not-started or over to running  *)
(* by a start, and from running to over by a step that applies a spawn      *)
(* attempt whose offset collides; the two flags are never both true.        *)
C18_SessionTransitions ==
  [][/\ ~(gameStarted' /\ gameOver')
     /\ Session' # Session =>
          \/ Session = "not-started" /\ Session' = "running" /\ startGame
          \/ Session = "over" /\ Session' = "running" /\ startGame
          \/ /\ Session = "running" /\ Session' = "over"
             /\ Commit \/ KeyDown
             /\ SpawnCollides(boardRef)]_vars

(* A game restarted after earlier frames: it ran, ended, and runs again. *)
C18_Witness ==
  /\ gameStarted /\ ~gameOver
  /\ ~lastTimeSet
  /\ frames > 0
  /\ board = createBoard

(* C19: every frame handled in a running game asks for the next frame, and *)
(* a running game with frames left to fire (a first frame that only takes   *)
(* the time, then two of at least 600 ms) reaches a tick that moves the     *)
(* piece down a row or locks it, unless the game ends or the component is   *)
(* unmounted first.                                                         *)
C19_GravityNeverStalls ==
  /\ [][(Frame /\ gameStartedRef /\ ~gameOverRef) =>
         /\ animationFrameId' \in rafQueue'
         /\ pending' # << >> =>
              \/ pending'[1].op = "setCurrentPos:y" /\ pending'[1].p.y = currentPos.y + 1
              \/ pending'[1].op = "setBoard:updateBoard"]_vars
  /\ (gameStarted /\ ~gameOver /\ mounted /\ frames + 3 <= MaxFrames)
       ~> (pending # << >> \/ ~mounted \/ gameOver)

(* The first game of the component, no key pressed: gravity has moved the   *)
(* piece one row down.                                                      *)
C19_Witness ==
  /\ gameStarted /\ ~gameOver
  /\ board = createBoard
  /\ keys = 0
  /\ currentPos.y = 1
  /\ animationFrameId \in rafQueue

(* C20: at most one animation frame is scheduled in every reachable state. *)
C20_OneFrameAtMost == Cardinality(rafQueue) <= 1

(* A restart after game over (that ended over again): the frame left by the *)
(* ended game was cancelled, the restart's frame is the only one scheduled. *)
C20_Witness ==
  /\ gameOver
  /\ board = createBoard
  /\ rafQueue = {animationFrameId}

---------------------------------------------------------------------------
(* Properties of the pure functions. *)

(* C6: the line-clear pass removes exactly the rows that were full before   *)
(* it, keeps the other rows in their order at the bottom under one empty    *)
(* row per removed row, reports the number of removed rows and leaves 20    *)
(* rows of 10 cells.                                                        *)
C6_ClearRemovesExactlyFullRows ==
  probe.called =>
    LET before == probe.before
        after == probe.after
        kept == {r \in 0..19 : \E c \in 0..9 : before[r][c] = 0}
        n == 20 - Cardinality(kept)
    IN /\ probe.linesCleared = n
       /\ DOMAIN after = 0..19
       /\ \A r \in 0..19 : DOMAIN after[r] = 0..9
       /\ \A r \in 0..(n - 1) : \A c \in 0..9 : after[r][c] = 0
       /\ \A r \in n..19 :
            after[r] = before[CHOOSE i \in kept : Cardinality({j \in kept : j < i}) = r - n]

(* Two full rows with a partial row between them, and a full top row. *)
C6_Witness ==
  /\ probe.called
  /\ RowFull(probe.before[19]) /\ RowFull(probe.before[17]) /\ RowFull(probe.before[0])
  /\ ~RowFull(probe.before[18]) /\ probe.before[18] # EmptyRow
  /\ RowFull(probe.before[1])
  /\ probe.linesCleared = 4

(* C8: four rotations in one direction give back the grid, and every result *)
(* on the way is a square grid of the same size.                            *)
C8_FourRotationsRestore ==
  /\ DOMAIN probe.matrix = DOMAIN probe.original
  /\ \A r \in DOMAIN probe.matrix : DOMAIN probe.matrix[r] = DOMAIN probe.original
  /\ \A r \in DOMAIN probe.matrix : \A c \in DOMAIN probe.matrix[r] : probe.matrix[r][c] \in {0, 1}
  /\ probe.n = 4 => probe.matrix = probe.original

C8_Witness ==
  /\ probe.n = 4
  /\ probe.dir = -1
  /\ probe.original = TETROMINOES.L.shape
  /\ probe.matrix = TETROMINOES.L.shape
  /\ rotate(probe.original, probe.dir) # probe.original

(* C9: checkCollision is true exactly when some occupied cell lands left of *)
(* column 0, right of column 9, below row 19, or in a row from 0 on a       *)
(* non-empty board cell; cells above row 0 never collide with the board.    *)
C9_CollisionIffCellOutsideOrOnBlock ==
  probe.called =>
    LET t == probe.tetromino
        cells == {rc \in (DOMAIN t) \X (DOMAIN t) : t[rc[1]][rc[2]] # 0}
        X(rc) == probe.pos.x + rc[2]
        Y(rc) == probe.pos.y + rc[1]
    IN /\ probe.result <=>
            \E rc \in cells :
               \/ X(rc) < 0
               \/ X(rc) >= 10
               \/ Y(rc) >= 20
               \/ (Y(rc) >= 0 /\ probe.board[Y(rc)][X(rc)] # 0)
       /\ (\A rc \in cells : Y(rc) < 0 /\ X(rc) \in 0..9) => ~probe.result

(* A piece wholly above a full board, in range of its columns. *)
C9_Witness ==
  /\ probe.called
  /\ probe.board = FullBoard
  /\ probe.tetromino = TETROMINOES.I.shape
  /\ probe.pos = [x |-> 3, y |-> -2]
  /\ ~probe.result

=============================================================================
